---- MODULE Spec2Model ----
(***************************************************************************)
(* HackClub Events Radar: the two-stage probe / extract pipeline of        *)
(* src/main.rs, the Prober of src/probe.rs and the token-bucket            *)
(* RateLimiter of src/ratelimit.rs.                                        *)
(*                                                                         *)
(* Spec        is one run of the binary (main): it constructs no           *)
(*             RateLimiter, so the limiter's state stays as declared.      *)
(* LimiterSpec is a RateLimiter of the library under arbitrary callers:    *)
(*             the refill task of RateLimiter::new and units of            *)
(*             concurrency that call acquire and later drop the permit.    *)
(* ExtractSpec is one call of extract_hackathons (src/llm.rs) on a page    *)
(*             and a reply of the analysis service.                        *)
(***************************************************************************)
EXTENDS Integers, Sequences, FiniteSets, TLC

\* ---------------------------------------------------------------- bounds
\* Largest number of targets the DNS record source yields.
MaxN == 3

\* Fan-out width handed to buffer_unordered (CONCURRENCY in main.rs),
\* scaled down so that N > CONCURRENCY happens within MaxN.
CONCURRENCY == 2

\* Largest requests_per_minute handed to RateLimiter::new.
MaxRpm == 2

\* Truncation limit of extract_hackathons (HTML_TRUNCATE_CHARS in config.rs),
\* scaled down so that pages longer than the limit are within MaxHtml.
HTML_TRUNCATE_CHARS == 2

\* Longest page, in characters, handed to extract_hackathons.
MaxHtml == 4

\* Longest message content, in tokens, between the optional fence markers.
MaxText == 3

\* Longest git log, in lines, handed to parse_git_diff.
MaxLines == 4

\* Number of distinct commit timestamps in a git log.
MaxStamp == 3

\* Largest number of tokens between the fence markers of a wrapped message
\* content.
MaxCore == 4

\* Largest number of keys of the DNS YAML mapping.
MaxKeys == 3

\* Largest requests_per_minute of the contiguous range for which the
\* refill period is computed (two rates around 60000 are added to it).
MaxPeriodRpm == 400

\* ---------------------------------------------------------- value domains
Items == 1..MaxN

\* Option<T>: None, or Some(v).
None == [some |-> FALSE]
Some(v) == [some |-> TRUE, v |-> v]

\* HTTP status codes a response may carry (resp.status().as_u16()).
StatusCodes == {200, 399, 400}

\* Response bodies (resp.text()).
Bodies == {"html"}

\* What client.get(url).send().await yields: a response with a status, or
\* a transport error.
SendResults ==
    [ok : {TRUE}, status : StatusCodes] \cup [ok : {FALSE}, err : {"transport"}]

\* What resp.text().await yields: the body, or a read error.
TextResults ==
    [ok : {TRUE}, body : Bodies] \cup [ok : {FALSE}, err : {"read"}]

\* One Hackathon record: the page it came from and its position in the
\* analysis call's answer.
Hackathon(url, k) == [url |-> url, k |-> k]

\* What extract_hackathons yields for a page: Err (the request failed), or
\* Ok with zero, one or two records.
ExtractResults(url) ==
    { [ok |-> FALSE, recs |-> << >>],
      [ok |-> TRUE, recs |-> << >>],
      [ok |-> TRUE, recs |-> << Hackathon(url, 1) >>],
      [ok |-> TRUE, recs |-> << Hackathon(url, 1), Hackathon(url, 2) >>] }

\* ------------------------------------------------------------------ state
VARIABLES
    pc,             \* main's position
    total,          \* subdomains.len()
    pNext,          \* targets already pulled from stream::iter(subdomains)
    pInFlight,      \* probe futures held by buffer_unordered
    done,           \* AtomicUsize done
    probes,         \* Vec<ProbeResult>, in completion order
    successes_json, \* the success-only artifact (successes.json)
    successes,      \* Vec<(String, String)> given to the extract stage
    eNext,          \* jobs already pulled from stream::iter(successes)
    eInFlight,      \* extract futures held by buffer_unordered
    llm_done,       \* AtomicUsize llm_done
    outputs,        \* Vec<Vec<Hackathon>>, in completion order
    hackathons,     \* the flattened Vec<Hackathon>
    progress,       \* the progress lines printed so far: stage and n
    rpm,            \* RateLimiter.requests_per_minute (0: none constructed)
    permits,        \* semaphore.available_permits()
    refill,         \* the refill task's position
    caller,         \* each unit of concurrency's position around acquire
    waitq,          \* the semaphore's FIFO queue of waiting acquirers
    arg,            \* the argument of the library function being called
    ret             \* what that call returned

pipeVars == << pc, total, pNext, pInFlight, done, probes, successes_json,
               successes, eNext, eInFlight, llm_done, outputs, hackathons,
               progress >>
limVars == << rpm, permits, refill, caller, waitq >>
callVars == << arg, ret >>
vars == << pc, total, pNext, pInFlight, done, probes, successes_json,
           successes, eNext, eInFlight, llm_done, outputs, hackathons,
           progress, rpm, permits, refill, caller, waitq, arg, ret >>

\* ------------------------------------------------------------------ Prober
\* (A probe that reports an empty body beside the read error.)
probeBodyWithError(url, send, text) ==
    IF send.ok
    THEN IF text.ok
         THEN [subdomain |-> url, status |-> Some(send.status),
               content |-> Some(text.body), error |-> None]
         ELSE [subdomain |-> url, status |-> Some(send.status),
               content |-> Some(""), error |-> Some(text.err)]
    ELSE [subdomain |-> url, status |-> None,
          content |-> None, error |-> Some(send.err)]

\* probe(client, url): one fetch, never raises.
probe(url, send, text) ==
    IF send.ok
    THEN IF text.ok
         THEN [subdomain |-> url, status |-> Some(send.status),
               content |-> Some(text.body), error |-> None]
         ELSE [subdomain |-> url, status |-> Some(send.status),
               content |-> None, error |-> Some(text.err)]
    ELSE [subdomain |-> url, status |-> None,
          content |-> None, error |-> Some(send.err)]

\* ------------------------------------------------------------ pure helpers
\* (The guard written `s <= 400`.)
IsSuccessInclusive(p) ==
    /\ p.status.some
    /\ p.content.some
    /\ p.status.v <= 400

\* The match arm `(Some(s), Some(c)) if s < 400` of both success filters.
IsSuccess(p) ==
    /\ p.status.some
    /\ p.content.some
    /\ p.status.v < 400

RECURSIVE FilterMapSuccesses(_)
\* probes.into_iter().filter_map(..).collect(): order kept.
FilterMapSuccesses(ps) ==
    IF ps = << >> THEN << >>
    ELSE LET p == Head(ps)
             rest == FilterMapSuccesses(Tail(ps))
         IN IF IsSuccess(p)
            THEN << [url |-> p.subdomain, content |-> p.content.v] >> \o rest
            ELSE rest

\* (The artifact's guard without the status test.)
IsSuccessJsonAnyStatus(p) ==
    /\ p.status.some
    /\ p.content.some

\* The match arm `(Some(s), Some(c)) if s < 400` of the successes.json filter.
IsSuccessJson(p) ==
    /\ p.status.some
    /\ p.content.some
    /\ p.status.v < 400

RECURSIVE SuccessesJson(_)
\* probes.iter().filter_map(..).collect() into Vec<SuccessJson>.
SuccessesJson(ps) ==
    IF ps = << >> THEN << >>
    ELSE LET p == Head(ps)
             rest == SuccessesJson(Tail(ps))
         IN IF IsSuccessJson(p)
            THEN << [url |-> p.subdomain, content |-> p.content.v] >> \o rest
            ELSE rest

\* Result::unwrap_or_default on the analysis result: Err gives no records.
UnwrapOrDefault(r) == IF r.ok THEN r.recs ELSE << >>

RECURSIVE FlattenReversed(_)
\* (A flatten that puts the later completions first.)
FlattenReversed(vs) ==
    IF vs = << >> THEN << >> ELSE FlattenReversed(Tail(vs)) \o Head(vs)

RECURSIVE Flatten(_)
\* into_iter().flatten().collect() over Vec<Vec<Hackathon>>.
Flatten(vs) == IF vs = << >> THEN << >> ELSE Head(vs) \o Flatten(Tail(vs))

\* buffer_unordered(n) polls the underlying stream for another future only
\* while fewer than n are in progress.  (Off by one: one future too many.)
HasFreeSlotOffByOne(inflight) == Cardinality(inflight) <= CONCURRENCY

\* (Round-based batching: the next item starts only with in-flight items of
\* its own round of CONCURRENCY items.)
HasFreeSlotRoundBased(inflight) ==
    LET next == IF pc = "probe" THEN pNext + 1 ELSE eNext + 1
    IN /\ Cardinality(inflight) < CONCURRENCY
       /\ \A i \in inflight :
             (i - 1) \div CONCURRENCY = (next - 1) \div CONCURRENCY

HasFreeSlot(inflight) == Cardinality(inflight) < CONCURRENCY

\* ------------------------------------------------------------------- Init
PipeInit ==
    /\ pc = "probe"
    /\ total \in 0..MaxN
    /\ pNext = 0
    /\ pInFlight = {}
    /\ done = 0
    /\ probes = << >>
    /\ successes_json = << >>
    /\ successes = << >>
    /\ eNext = 0
    /\ eInFlight = {}
    /\ llm_done = 0
    /\ outputs = << >>
    /\ hackathons = << >>
    /\ progress = << >>

\* main constructs no RateLimiter: no semaphore, no refill task, no acquirer.
NoLimiter ==
    /\ rpm = 0
    /\ permits = 0
    /\ refill = "none"
    /\ caller = [c \in Items |-> "idle"]
    /\ waitq = << >>

\* No library function is being called on its own.
NoCall ==
    /\ arg = [fn |-> "none"]
    /\ ret = [called |-> FALSE]

Init == PipeInit /\ NoLimiter /\ NoCall

\* ------------------------------------------------------------ probe stage
\* buffer_unordered pulls the next target while fewer than CONCURRENCY
\* futures are in progress.
ProbeDispatch ==
    /\ pc = "probe"
    /\ pNext < total
    /\ HasFreeSlot(pInFlight)
    /\ pNext' = pNext + 1
    /\ pInFlight' = pInFlight \cup {pNext + 1}
    /\ UNCHANGED << progress, pc, total, done, probes, successes_json, successes, eNext,
                    eInFlight, llm_done, outputs, hackathons >>
    /\ UNCHANGED limVars
    /\ UNCHANGED callVars

\* (A probe future that counts only the probes that got a response.)
ProbeCompleteCountsResponses(i, send, text) ==
    /\ pc = "probe"
    /\ i \in pInFlight
    /\ pInFlight' = pInFlight \ {i}
    /\ done' = IF send.ok THEN done + 1 ELSE done
    /\ progress' = Append(progress, [stage |-> "probe", n |-> done'])
    /\ probes' = Append(probes, probe(i, send, text))
    /\ UNCHANGED << pc, total, pNext, successes_json, successes, eNext,
                    eInFlight, llm_done, outputs, hackathons >>
    /\ UNCHANGED limVars
    /\ UNCHANGED callVars

\* (A probe future that reports the value fetch_add returns, the count
\* before its own increment.)
ProbeCompleteReportsPrevious(i, send, text) ==
    /\ pc = "probe"
    /\ i \in pInFlight
    /\ pInFlight' = pInFlight \ {i}
    /\ done' = done + 1
    /\ progress' = Append(progress, [stage |-> "probe", n |-> done])
    /\ probes' = Append(probes, probe(i, send, text))
    /\ UNCHANGED << pc, total, pNext, successes_json, successes, eNext,
                    eInFlight, llm_done, outputs, hackathons >>
    /\ UNCHANGED limVars
    /\ UNCHANGED callVars

\* One probe future runs to its end: probe, done.fetch_add(1), the progress
\* line with n = the returned count + 1, the result handed to collect.
ProbeComplete(i, send, text) ==
    /\ pc = "probe"
    /\ i \in pInFlight
    /\ pInFlight' = pInFlight \ {i}
    /\ done' = done + 1
    /\ progress' = Append(progress, [stage |-> "probe", n |-> done'])
    /\ probes' = Append(probes, probe(i, send, text))
    /\ UNCHANGED << pc, total, pNext, successes_json, successes, eNext,
                    eInFlight, llm_done, outputs, hackathons >>
    /\ UNCHANGED limVars
    /\ UNCHANGED callVars

\* (A collect that returns once every target is dispatched, with probes
\* still in progress.)
ProbeCollectEarly ==
    /\ pc = "probe"
    /\ pNext = total
    /\ pc' = "debug"
    /\ UNCHANGED << progress, total, pNext, pInFlight, done, probes, successes_json,
                    successes, eNext, eInFlight, llm_done, outputs, hackathons >>
    /\ UNCHANGED limVars
    /\ UNCHANGED callVars

\* The stream is exhausted: collect().await returns.
ProbeCollect ==
    /\ pc = "probe"
    /\ pNext = total
    /\ pInFlight = {}
    /\ pc' = "debug"
    /\ UNCHANGED << progress, total, pNext, pInFlight, done, probes, successes_json,
                    successes, eNext, eInFlight, llm_done, outputs, hackathons >>
    /\ UNCHANGED limVars
    /\ UNCHANGED callVars

\* results.json and successes.json are written; a failed write ends main (`?`).
WriteDebug(ok) ==
    /\ pc = "debug"
    /\ IF ok
       THEN /\ successes_json' = SuccessesJson(probes)
            /\ pc' = "filter"
       ELSE /\ successes_json' = successes_json
            /\ pc' = "failed"
    /\ UNCHANGED << progress, total, pNext, pInFlight, done, probes, successes, eNext,
                    eInFlight, llm_done, outputs, hackathons >>
    /\ UNCHANGED limVars
    /\ UNCHANGED callVars

\* ---------------------------------------------------------- extract stage
BuildSuccesses ==
    /\ pc = "filter"
    /\ successes' = FilterMapSuccesses(probes)
    /\ pc' = "extract"
    /\ UNCHANGED << progress, total, pNext, pInFlight, done, probes, successes_json,
                    eNext, eInFlight, llm_done, outputs, hackathons >>
    /\ UNCHANGED limVars
    /\ UNCHANGED callVars

ExtractDispatch ==
    /\ pc = "extract"
    /\ eNext < Len(successes)
    /\ HasFreeSlot(eInFlight)
    /\ eNext' = eNext + 1
    /\ eInFlight' = eInFlight \cup {eNext + 1}
    /\ UNCHANGED << progress, pc, total, pNext, pInFlight, done, probes, successes_json,
                    successes, llm_done, outputs, hackathons >>
    /\ UNCHANGED limVars
    /\ UNCHANGED callVars

\* (An extract future that propagates Err, ending main, where the code
\* takes the default.)
ExtractCompletePropagates(j, r) ==
    /\ pc = "extract"
    /\ j \in eInFlight
    /\ eInFlight' = eInFlight \ {j}
    /\ llm_done' = llm_done + 1
    /\ progress' = Append(progress, [stage |-> "extract", n |-> llm_done'])
    /\ IF r.ok
       THEN /\ outputs' = Append(outputs, r.recs)
            /\ pc' = pc
       ELSE /\ outputs' = outputs
            /\ pc' = "failed"
    /\ UNCHANGED << total, pNext, pInFlight, done, probes, successes_json,
                    successes, eNext, hackathons >>
    /\ UNCHANGED limVars
    /\ UNCHANGED callVars

\* One extract future runs to its end: extract_hackathons,
\* llm_done.fetch_add(1), the progress line, result.unwrap_or_default()
\* handed to collect.
ExtractComplete(j, r) ==
    /\ pc = "extract"
    /\ j \in eInFlight
    /\ eInFlight' = eInFlight \ {j}
    /\ llm_done' = llm_done + 1
    /\ progress' = Append(progress, [stage |-> "extract", n |-> llm_done'])
    /\ outputs' = Append(outputs, UnwrapOrDefault(r))
    /\ UNCHANGED << pc, total, pNext, pInFlight, done, probes, successes_json,
                    successes, eNext, hackathons >>
    /\ UNCHANGED limVars
    /\ UNCHANGED callVars

ExtractCollect ==
    /\ pc = "extract"
    /\ eNext = Len(successes)
    /\ eInFlight = {}
    /\ hackathons' = Flatten(outputs)
    /\ pc' = "summary"
    /\ UNCHANGED << progress, total, pNext, pInFlight, done, probes, successes_json,
                    successes, eNext, eInFlight, llm_done, outputs >>
    /\ UNCHANGED limVars
    /\ UNCHANGED callVars

\* summary.json is written and the summary printed.
WriteSummary(ok) ==
    /\ pc = "summary"
    /\ pc' = IF ok THEN "done" ELSE "failed"
    /\ UNCHANGED << progress, total, pNext, pInFlight, done, probes, successes_json,
                    successes, eNext, eInFlight, llm_done, outputs, hackathons >>
    /\ UNCHANGED limVars
    /\ UNCHANGED callVars

Next ==
    \/ ProbeDispatch
    \/ \E i \in pInFlight, send \in SendResults, text \in TextResults :
          ProbeComplete(i, send, text)
    \/ ProbeCollect
    \/ \E ok \in BOOLEAN : WriteDebug(ok)
    \/ BuildSuccesses
    \/ ExtractDispatch
    \/ \E j \in eInFlight : \E r \in ExtractResults(successes[j].url) :
          ExtractComplete(j, r)
    \/ ExtractCollect
    \/ \E ok \in BOOLEAN : WriteSummary(ok)

Spec == Init /\ [][Next]_vars

\* ------------------------------------------------------------ RateLimiter
\* No run of main: the library's RateLimiter is used on its own.
NoPipeline ==
    /\ pc = "none"
    /\ total = 0
    /\ pNext = 0
    /\ pInFlight = {}
    /\ done = 0
    /\ probes = << >>
    /\ successes_json = << >>
    /\ successes = << >>
    /\ eNext = 0
    /\ eInFlight = {}
    /\ llm_done = 0
    /\ outputs = << >>
    /\ hackathons = << >>
    /\ progress = << >>

\* RateLimiter::new(r): Semaphore::new(1), and the refill task spawned.
New(r) ==
    /\ rpm = r
    /\ permits = 1
    /\ refill = "tick"
    /\ caller = [c \in Items |-> "idle"]
    /\ waitq = << >>

LimiterInit == NoPipeline /\ NoCall /\ \E r \in 1..MaxRpm : New(r)

\* (A refill test that keeps one permit short of the maximum.)
RefillCheckOneShort ==
    /\ refill = "tick"
    /\ refill' = IF permits + 1 < rpm THEN "add" ELSE "tick"
    /\ UNCHANGED << rpm, permits, caller, waitq >>
    /\ UNCHANGED pipeVars
    /\ UNCHANGED callVars

\* The refill task after interval.tick(): the test
\* `semaphore.available_permits() < rpm`; add_permits is a later step.
RefillCheck ==
    /\ refill = "tick"
    /\ refill' = IF permits < rpm THEN "add" ELSE "tick"
    /\ UNCHANGED << rpm, permits, caller, waitq >>
    /\ UNCHANGED pipeVars
    /\ UNCHANGED callVars

\* semaphore.add_permits(1), then back to the tick.
RefillAdd ==
    /\ refill = "add"
    /\ permits' = permits + 1
    /\ refill' = "tick"
    /\ UNCHANGED << rpm, caller, waitq >>
    /\ UNCHANGED pipeVars
    /\ UNCHANGED callVars

\* A unit of concurrency calls limiter.acquire(): it joins the semaphore's
\* queue and is suspended.
AcquireCall(c) ==
    /\ caller[c] = "idle"
    /\ caller' = [caller EXCEPT ![c] = "waiting"]
    /\ waitq' = Append(waitq, c)
    /\ UNCHANGED << rpm, permits, refill >>
    /\ UNCHANGED pipeVars
    /\ UNCHANGED callVars

\* (An acquire that returns without taking the permit it was woken for.)
AcquireReturnKeepsPermit(c) ==
    /\ caller[c] = "waiting"
    /\ waitq # << >>
    /\ Head(waitq) = c
    /\ permits > 0
    /\ permits' = permits
    /\ caller' = [caller EXCEPT ![c] = "holding"]
    /\ waitq' = Tail(waitq)
    /\ UNCHANGED << rpm, refill >>
    /\ UNCHANGED pipeVars
    /\ UNCHANGED callVars

\* semaphore.acquire().await returns: the first waiter takes one permit.
AcquireReturn(c) ==
    /\ caller[c] = "waiting"
    /\ waitq # << >>
    /\ Head(waitq) = c
    /\ permits > 0
    /\ permits' = permits - 1
    /\ caller' = [caller EXCEPT ![c] = "holding"]
    /\ waitq' = Tail(waitq)
    /\ UNCHANGED << rpm, refill >>
    /\ UNCHANGED pipeVars
    /\ UNCHANGED callVars

\* drop(permit): a SemaphorePermit gives its permit back to the semaphore
\* when dropped.
Release(c) ==
    /\ caller[c] = "holding"
    /\ permits' = permits + 1
    /\ caller' = [caller EXCEPT ![c] = "idle"]
    /\ UNCHANGED << rpm, refill, waitq >>
    /\ UNCHANGED pipeVars
    /\ UNCHANGED callVars

LimiterNext ==
    \/ RefillCheck
    \/ RefillAdd
    \/ \E c \in Items : AcquireCall(c)
    \/ \E c \in Items : AcquireReturn(c)
    \/ \E c \in Items : Release(c)

LimiterSpec == LimiterInit /\ [][LimiterNext]_vars

\* The refill loop never ends (every tick is followed by the test and, when
\* the test passes, by the add), and the semaphore hands a permit to its first
\* waiter; nothing obliges a caller to call acquire or to drop its permit.
LimiterFairSpec ==
    /\ LimiterInit
    /\ [][LimiterNext]_vars
    /\ WF_vars(RefillCheck)
    /\ WF_vars(RefillAdd)
    /\ \A c \in Items : WF_vars(AcquireReturn(c))

\* -------------------------------------------------------- extract_hackathons
\* A page is a sequence of characters, each with its UTF-8 width in bytes.
Chars == { [c |-> "a", bytes |-> 1], [c |-> "ee", bytes |-> 2] }

RECURSIVE SeqsUpTo(_, _)
\* All sequences over S of length at most n.
SeqsUpTo(S, n) ==
    IF n = 0 THEN { << >> }
    ELSE LET shorter == SeqsUpTo(S, n - 1)
         IN shorter \cup { Append(q, x) : q \in shorter, x \in S }

Htmls == SeqsUpTo(Chars, MaxHtml)

\* The message content is a sequence of tokens: the fence marker (three
\* backquotes), the language tag, white space, the array brackets, one well-formed Hackathon
\* object, the comma, and any other text.
Fence == "fence"
Tokens == { Fence, "json", " ", "[", "]", "R", ",", "x" }

Leads == { << Fence, "json" >>, << Fence, "json", " " >>, << Fence >>,
           << " ", Fence, "json", " " >> }
Trails == { << Fence >>, << " ", Fence >>, << " ", Fence, " " >> }
Cores == SeqsUpTo(Tokens, MaxText)

\* Message contents: bare, or wrapped in fence markers.
Texts ==
    Cores \cup { l \o c \o t : l \in Leads, c \in Cores, t \in Trails }

\* What the analysis service does with the request: the send fails, or a
\* response arrives whose body is not JSON, is JSON with no message content,
\* or is JSON with a message content.
Replies ==
    [sent : {FALSE}, err : {"timeout", "connect"}]
      \cup [sent : {TRUE}, status : {200, 401}, json : {FALSE}]
      \cup [sent : {TRUE}, status : {200, 401}, json : {TRUE}, content : {None}]
      \cup { [sent |-> TRUE, status |-> 200, json |-> TRUE, content |-> Some(t)] :
               t \in Texts }

\* (A byte-indexed truncation: the longest prefix of at most n bytes.)
TakeBytes(html, n) ==
    LET RECURSIVE width(_)
        width(q) == IF q = << >> THEN 0 ELSE Head(q).bytes + width(Tail(q))
        fits == { k \in 0..Len(html) : width(SubSeq(html, 1, k)) <= n }
    IN SubSeq(html, 1, CHOOSE k \in fits : \A j \in fits : j <= k)

\* html.chars().take(n).collect()
Take(html, n) == SubSeq(html, 1, IF Len(html) < n THEN Len(html) ELSE n)

StartsWith(str, pat) ==
    Len(str) >= Len(pat) /\ SubSeq(str, 1, Len(pat)) = pat

EndsWith(str, pat) ==
    Len(str) >= Len(pat) /\ SubSeq(str, Len(str) - Len(pat) + 1, Len(str)) = pat

RECURSIVE TrimStartMatches(_, _)
\* str::trim_start_matches(pat): the prefix removed as often as it matches.
TrimStartMatches(str, pat) ==
    IF StartsWith(str, pat)
    THEN TrimStartMatches(SubSeq(str, Len(pat) + 1, Len(str)), pat)
    ELSE str

RECURSIVE TrimEndMatches(_, _)
\* str::trim_end_matches(pat)
TrimEndMatches(str, pat) ==
    IF EndsWith(str, pat)
    THEN TrimEndMatches(SubSeq(str, 1, Len(str) - Len(pat)), pat)
    ELSE str

\* str::trim(): white space removed at both ends.
Trim(str) == TrimEndMatches(TrimStartMatches(str, << " " >>), << " " >>)

\* (A fence stripping that knows the bare marker only, not the tagged one.)
CleanBareOnly(text) ==
    Trim(TrimEndMatches(TrimStartMatches(Trim(text), << Fence >>), << Fence >>))

\* The fence stripping of extract_hackathons.
Clean(text) ==
    Trim(TrimEndMatches(
           TrimStartMatches(
             TrimStartMatches(Trim(text), << Fence, "json" >>),
             << Fence >>),
           << Fence >>))

\* serde_json::from_str::<Vec<Hackathon>>(clean): an array of objects, white
\* space allowed between its tokens, nothing else before or after it.
FromStr(clean, url) ==
    LET t == SelectSeq(clean, LAMBDA x : x # " ")
        inner == SubSeq(t, 2, Len(t) - 1)
        wellFormed ==
            /\ Len(t) >= 2
            /\ t[1] = "["
            /\ t[Len(t)] = "]"
            /\ \/ inner = << >>
               \/ /\ Len(inner) % 2 = 1
                  /\ \A i \in 1..Len(inner) :
                        inner[i] = IF i % 2 = 1 THEN "R" ELSE ","
    IN IF wellFormed
       THEN [ok |-> TRUE,
             recs |-> [k \in 1..((Len(inner) + 1) \div 2) |-> Hackathon(url, k)]]
       ELSE [ok |-> FALSE, recs |-> << >>]

\* (An extract that reports an unparsable message content as an error.)
extract_hackathons_strict(url, html, reply) ==
    LET truncated == Take(html, HTML_TRUNCATE_CHARS)
        request == [url |-> url, html |-> truncated]
    IN IF ~reply.sent
       THEN [called |-> TRUE, request |-> request, ok |-> FALSE, recs |-> << >>]
       ELSE IF ~reply.json
       THEN [called |-> TRUE, request |-> request, ok |-> FALSE, recs |-> << >>]
       ELSE LET text == IF reply.content.some THEN reply.content.v
                        ELSE << "[", "]" >>
                parsed == FromStr(Clean(text), url)
            IN [called |-> TRUE, request |-> request, ok |-> parsed.ok,
                recs |-> parsed.recs]

\* extract_hackathons(client, api_key, url, html) against the reply `reply`:
\* the request it builds and the Result it returns.
extract_hackathons(url, html, reply) ==
    LET truncated == Take(html, HTML_TRUNCATE_CHARS)
        request == [url |-> url, html |-> truncated]
    IN IF ~reply.sent
       THEN [called |-> TRUE, request |-> request, ok |-> FALSE, recs |-> << >>]
       ELSE IF ~reply.json
       THEN [called |-> TRUE, request |-> request, ok |-> FALSE, recs |-> << >>]
       ELSE LET text == IF reply.content.some THEN reply.content.v
                        ELSE << "[", "]" >>
                parsed == FromStr(Clean(text), url)
            IN [called |-> TRUE, request |-> request, ok |-> TRUE,
                recs |-> UnwrapOrDefault(parsed)]

\* One call: a page with some reply, the page or the reply ranging over its
\* whole domain.
ExtractArgs ==
    { [fn |-> "extract_hackathons", url |-> 1, html |-> h, reply |-> r] :
        h \in Htmls,
        r \in { [sent |-> TRUE, status |-> 200, json |-> TRUE,
                 content |-> Some(<< "[", "R", "]" >>)] } }
      \cup
    { [fn |-> "extract_hackathons", url |-> 1, html |-> h, reply |-> r] :
        h \in { << >> }, r \in Replies }

ExtractInit ==
    /\ NoPipeline
    /\ NoLimiter
    /\ arg \in ExtractArgs
    /\ ret = [called |-> FALSE]

ExtractCall ==
    /\ arg.fn = "extract_hackathons"
    /\ ~ret.called
    /\ ret' = extract_hackathons(arg.url, arg.html, arg.reply)
    /\ UNCHANGED arg
    /\ UNCHANGED pipeVars
    /\ UNCHANGED limVars

ExtractNext == ExtractCall

ExtractSpec == ExtractInit /\ [][ExtractNext]_vars

\* Wrapped message contents with their parts: the leading marker, the content
\* between the markers and the trailing marker.  A text that begins with the
\* fence and the language tag has the tagged marker as its leading marker.
\* The content between the markers has at most n tokens.
WrappedCores(n) == SeqsUpTo(Tokens, n)

Wrappings(n) ==
    { [fn |-> "extract_hackathons", url |-> 1, html |-> << >>,
       reply |-> [sent |-> TRUE, status |-> 200, json |-> TRUE,
                  content |-> Some(l \o c \o t)],
       lead |-> l, core |-> c, trail |-> t] :
        l \in Leads, c \in WrappedCores(n), t \in Trails }

WrappedArgs(n) ==
    { w \in Wrappings(n) :
        ~(w.lead[Len(w.lead)] = Fence /\ StartsWith(w.core, << "json" >>)) }

WrappedInit ==
    /\ NoPipeline
    /\ NoLimiter
    /\ arg \in WrappedArgs(MaxCore)
    /\ ret = [called |-> FALSE]

WrappedSpec == WrappedInit /\ [][ExtractNext]_vars

\* ------------------------------------------------------------- git_history
\* The lines of `git log -p -- <yaml>` as parse_git_diff reads them:
\*   date  a "Date:" line; ts is what format_date_to_iso8601(..).ok() gives
\*   add   a "+" line other than "+++"; key is what
\*         parse_subdomain_from_yaml_line gives for the rest of the line
\*   del   a "-" line other than "---", likewise
\*   other any other line (commit, Author, message, headers, context)
Stamps == 1..MaxStamp
Keys == { "a", "b" }

Lines ==
    { [kind |-> "date", ts |-> Some(t)] : t \in Stamps }
      \cup { [kind |-> "date", ts |-> None] }
      \cup { [kind |-> "add", key |-> Some(k)] : k \in Keys }
      \cup { [kind |-> "del", key |-> Some("a")],
             [kind |-> "add", key |-> None],
             [kind |-> "other"] }

Diffs == SeqsUpTo(Lines, MaxLines)

\* The loop over the drained current_commit_subdomains: with a timestamp,
\* each subdomain's entry is created if missing, first_added is set if it is
\* still None, and last_modified is overwritten.
ApplyCommit(history_map, ts, subs) ==
    IF ~ts.some THEN history_map
    ELSE [k \in (DOMAIN history_map) \cup subs |->
            IF k \in subs
            THEN [first_added |->
                     IF k \in DOMAIN history_map /\ history_map[k].first_added.some
                     THEN history_map[k].first_added
                     ELSE ts,
                  last_modified |-> ts]
            ELSE history_map[k]]

\* One iteration of `for line in diff_content.lines()`.
ParseLine(st, line) ==
    IF line.kind = "date"
    THEN [history_map |->
              ApplyCommit(st.history_map, st.current_timestamp,
                          st.current_commit_subdomains),
          current_timestamp |-> line.ts,
          current_commit_subdomains |-> {}]
    ELSE IF line.kind \in {"add", "del"} /\ line.key.some
    THEN [st EXCEPT !.current_commit_subdomains = @ \cup {line.key.v}]
    ELSE st

RECURSIVE ParseLines(_, _)
ParseLines(st, lines) ==
    IF lines = << >> THEN st
    ELSE ParseLines(ParseLine(st, Head(lines)), Tail(lines))

\* parse_git_diff(diff_content, &mut history_map) on an empty map: the map
\* it leaves.
parse_git_diff(diff_content) ==
    LET st == ParseLines([history_map |-> << >>,
                          current_timestamp |-> None,
                          current_commit_subdomains |-> {}],
                         diff_content)
    IN ApplyCommit(st.history_map, st.current_timestamp,
                   st.current_commit_subdomains)

GitInit ==
    /\ NoPipeline
    /\ NoLimiter
    /\ arg \in { [fn |-> "parse_git_diff", diff_content |-> d] : d \in Diffs }
    /\ ret = [called |-> FALSE]

GitCall ==
    /\ arg.fn = "parse_git_diff"
    /\ ~ret.called
    /\ ret' = [called |-> TRUE, history_map |-> parse_git_diff(arg.diff_content)]
    /\ UNCHANGED arg
    /\ UNCHANGED pipeVars
    /\ UNCHANGED limVars

GitNext == GitCall

GitSpec == GitInit /\ [][GitNext]_vars

\* ------------------------------------------------- the refill task's period
\* The rates for which the f64 quotient 1000.0 / (rpm as f64 / 60.0) comes out
\* just below the integer 60000 / rpm (rpm / 60.0 rounds up), so that the
\* cast to u64 gives one millisecond less.
RoundsBelow == { 125, 250, 500, 1000, 2000, 4000 }

\* Rates handed to RateLimiter::new.
PeriodRpms == (1..MaxPeriodRpm) \cup { 500, 60000, 60001 }

\* (1000.0 / (rpm as f64 / 60.0)) as u64: the period of the refill interval
\* in whole milliseconds, truncated.
PeriodMillis(r) ==
    IF r \in RoundsBelow THEN 60000 \div r - 1 ELSE 60000 \div r

PeriodInit ==
    /\ NoPipeline
    /\ NoLimiter
    /\ arg \in { [fn |-> "period", requests_per_minute |-> r] : r \in PeriodRpms }
    /\ ret = [called |-> FALSE]

\* The refill task computes its period before it builds the interval.
PeriodCall ==
    /\ arg.fn = "period"
    /\ ~ret.called
    /\ ret' = [called |-> TRUE, period |-> PeriodMillis(arg.requests_per_minute)]
    /\ UNCHANGED arg
    /\ UNCHANGED pipeVars
    /\ UNCHANGED limVars

PeriodNext == PeriodCall

PeriodSpec == PeriodInit /\ [][PeriodNext]_vars

\* ------------------------------------------------- subdomains construction
\* The keys a YAML mapping may have: strings (host names, the empty string
\* among them) and a key that is not a string.
HostNames == { "a", "b", "c" }
YamlKeys ==
    { [str |-> Some(h)] : h \in HostNames \cup { "" } } \cup { [str |-> None] }

\* The key lists of a mapping: serde_yaml keeps the document's order and
\* rejects a mapping with a duplicate key.
Mappings ==
    { ks \in SeqsUpTo(YamlKeys, MaxKeys) :
        \A a, b \in DOMAIN ks : a # b => ks[a] # ks[b] }

\* Value::as_str
as_str(k) == k.str

\* format!("http://{}.hackclub.com", s)
Url(s) == << "http://", s, ".hackclub.com" >>

\* (A construction that does not filter the empty names out.)
RECURSIVE SubdomainsKeepEmpty(_)
SubdomainsKeepEmpty(ks) ==
    IF ks = << >> THEN << >>
    ELSE IF as_str(Head(ks)).some
         THEN << Url(as_str(Head(ks)).v) >> \o SubdomainsKeepEmpty(Tail(ks))
         ELSE SubdomainsKeepEmpty(Tail(ks))

\* map.iter().filter_map(|(k, _)| k.as_str()).filter(|s| !s.is_empty())
\*    .map(|s| format!(...)).collect()
RECURSIVE Subdomains(_)
Subdomains(ks) ==
    IF ks = << >> THEN << >>
    ELSE IF as_str(Head(ks)).some /\ as_str(Head(ks)).v # ""
         THEN << Url(as_str(Head(ks)).v) >> \o Subdomains(Tail(ks))
         ELSE Subdomains(Tail(ks))

\* main up to the probe stage, with the mapping it parsed: the targets are
\* the entries of Subdomains(keys), target i being the i-th of them.
TargetsInit ==
    /\ arg \in { [fn |-> "main", keys |-> ks] : ks \in Mappings }
    /\ ret = [called |-> FALSE]
    /\ pc = "probe"
    /\ total = Len(Subdomains(arg.keys))
    /\ pNext = 0
    /\ pInFlight = {}
    /\ done = 0
    /\ probes = << >>
    /\ successes_json = << >>
    /\ successes = << >>
    /\ eNext = 0
    /\ eInFlight = {}
    /\ llm_done = 0
    /\ outputs = << >>
    /\ hackathons = << >>
    /\ progress = << >>
    /\ NoLimiter

\* The probe stage alone.
TargetsNext ==
    \/ ProbeDispatch
    \/ \E i \in pInFlight, send \in SendResults, text \in TextResults :
          ProbeComplete(i, send, text)
    \/ ProbeCollect

TargetsSpec == TargetsInit /\ [][TargetsNext]_vars

\* ================================================================ claims
\* The targets whose probe has completed: pulled from the stream and no
\* longer in progress.
ProbeCompleted == (1..pNext) \ pInFlight
ExtractCompleted == (1..eNext) \ eInFlight
ProbeSet == { probes[k] : k \in 1..Len(probes) }

\* C1: in the probe stage and in the extract stage the number of items in
\* flight at once never exceeds the fan-out width.
C1_InFlightBound ==
    /\ Cardinality(pInFlight) <= CONCURRENCY
    /\ Cardinality(eInFlight) <= CONCURRENCY

\* C1's case: more extract jobs than the width, the width in flight and a
\* job still pending (so the probe stage ran with more targets than the
\* width too).
C1_Witness ==
    /\ Len(successes) > CONCURRENCY
    /\ Cardinality(eInFlight) = CONCURRENCY
    /\ eNext < Len(successes)

\* C2: each stage's progress counter counts every completed item exactly
\* once, success or failure, never decreases, and equals the stage's input
\* count once the stage has finished.
C2_ProgressCounter ==
    /\ [](/\ done = Cardinality(ProbeCompleted)
          /\ llm_done = Cardinality(ExtractCompleted)
          /\ (pc \notin {"none", "probe"} => done = total)
          /\ (pc \in {"summary", "done"} => llm_done = Len(successes)))
    /\ [][/\ done' >= done
          /\ llm_done' >= llm_done
          /\ done' - done = Cardinality(ProbeCompleted' \ ProbeCompleted)
          /\ llm_done' - llm_done
                = Cardinality(ExtractCompleted' \ ExtractCompleted)]_vars

\* C2's case: both stages finished, with failed and successful probes.
C2_Witness ==
    /\ pc = "summary"
    /\ total >= 2
    /\ done = total
    /\ llm_done >= 1
    /\ llm_done = Len(successes)
    /\ \E p \in ProbeSet : ~p.status.some

\* C3: no extract job is dispatched while a probe is pending or in flight.
C3_StagesSequential ==
    (eNext > 0 \/ eInFlight # {} \/ outputs # << >>)
        => /\ pNext = total
           /\ pInFlight = {}
           /\ Len(probes) = total

\* C3's case: an extract job in flight after a probe stage of several targets.
C3_Witness ==
    /\ total >= 2
    /\ eInFlight # {}

\* C4: the extract stage's input is exactly the probe outcomes with a
\* status below 400 and a body; 399 with a body is in, 400 is out, and an
\* outcome with no body is out whatever its status.
C4_ExtractInput ==
    pc \in {"extract", "summary", "done"} =>
        LET jobs == { successes[k] : k \in 1..Len(successes) }
            want == { p \in ProbeSet :
                        p.status.some /\ p.content.some /\ p.status.v \in 0..399 }
        IN /\ jobs = { [url |-> p.subdomain, content |-> p.content.v] : p \in want }
           /\ Len(successes) = Cardinality(want)
           /\ \A p \in ProbeSet :
                /\ (p.status = Some(399) /\ p.content.some)
                      => \E j \in jobs : j.url = p.subdomain
                /\ (p.status = Some(400))
                      => ~ \E j \in jobs : j.url = p.subdomain
                /\ (~p.content.some)
                      => ~ \E j \in jobs : j.url = p.subdomain

\* C4's case: the filter has run over a 399 with a body, a 400 with a body
\* and a status below 400 with no body.
C4_Witness ==
    /\ pc = "extract"
    /\ \E p \in ProbeSet : p.status = Some(399) /\ p.content.some
    /\ \E p \in ProbeSet : p.status = Some(400) /\ p.content.some
    /\ \E p \in ProbeSet : p.status = Some(200) /\ ~p.content.some

\* C5: every extract item that is in its Extractor call holds a RateLimiter
\* permit it acquired first.
C5_PermitBeforeExtract ==
    \A j \in eInFlight : caller[j] = "holding"

\* C6: the number of available permits never exceeds the limiter's maximum.
C6_AvailableAtMostMax ==
    rpm > 0 => permits <= rpm

\* C7: releasing a permit leaves the available count unchanged; only the
\* refill task's add raises it.
C7_ReleaseKeepsCount ==
    [][/\ \A c \in Items :
             (caller[c] = "holding" /\ caller'[c] = "idle") => permits' = permits
       /\ permits' > permits => (refill = "add" /\ refill' = "tick")]_vars

\* C8: a permit goes to at most one acquirer: every acquire that returns
\* finds a permit available and takes exactly one, and the available count
\* never falls below zero.
C8_OnePermitOneAcquirer ==
    /\ [](permits >= 0)
    /\ [][LET returned == { c \in Items :
                              caller[c] = "waiting" /\ caller'[c] = "holding" }
          IN returned # {} => /\ permits >= Cardinality(returned)
                              /\ permits' = permits - Cardinality(returned)]_vars

\* C8's case: two callers were in acquire with one permit available; one has
\* returned, the other still waits with nothing available.
C8_Witness ==
    /\ \E c, d \in Items : caller[c] = "holding" /\ caller[d] = "waiting"
    /\ permits = 0

\* C9: every ProbeResult has exactly one of the shapes (status, body),
\* (status, error), (error).
C9_ProbeShapes ==
    \A p \in ProbeSet :
        LET shapeBody == p.status.some /\ p.content.some /\ ~p.error.some
            shapeReadErr == p.status.some /\ ~p.content.some /\ p.error.some
            shapeTransport == ~p.status.some /\ ~p.content.some /\ p.error.some
        IN Cardinality({ b \in {<<1, shapeBody>>, <<2, shapeReadErr>>,
                                 <<3, shapeTransport>>} : b[2] }) = 1

\* C9's case: probe has produced all three shapes.
C9_Witness ==
    /\ \E p \in ProbeSet : p.status.some /\ p.content.some
    /\ \E p \in ProbeSet : p.status.some /\ p.error.some
    /\ \E p \in ProbeSet : ~p.status.some /\ p.error.some

\* C10: a failed item never ends its stage: a stage is left only with one
\* recorded outcome for each of its input items.
C10_FailureIsolated ==
    /\ pc \notin {"none", "probe"} =>
          /\ Len(probes) = total
          /\ { p.subdomain : p \in ProbeSet } = 1..total
    /\ pc \in {"summary", "done", "failed"} =>
          Len(outputs) = Len(successes)
    /\ pc \in {"probe", "extract"} => ENABLED Next

\* C10's case: both stages finished although a probe failed and an analysis
\* call gave no records while another gave some.
C10_Witness ==
    /\ pc = "summary"
    /\ \E p \in ProbeSet : ~p.content.some
    /\ \E k \in 1..Len(outputs) : outputs[k] = << >>
    /\ \E k \in 1..Len(outputs) : outputs[k] # << >>

\* The number of tokens of text equal to tok.
Count(text, tok) == Cardinality({ i \in 1..Len(text) : text[i] = tok })

\* A message content that holds no array of records, whatever markers
\* surround it: it contains other text, or not exactly one opening and one
\* closing bracket.
NotAnArray(text) ==
    \/ Count(text, "x") > 0
    \/ Count(text, "[") # 1
    \/ Count(text, "]") # 1

\* C11 (as stated): whenever the response received is not valid structured
\* output, a body that is not well-formed at all included, extract returns
\* an empty sequence and no error.
C11_MalformedIsEmpty ==
    (/\ ret.called
     /\ arg.fn = "extract_hackathons"
     /\ arg.reply.sent
     /\ \/ ~arg.reply.json
        \/ ~arg.reply.content.some
        \/ NotAnArray(arg.reply.content.v))
        => (ret.ok /\ ret.recs = << >>)

\* C11 (amended): whenever the response body is JSON and its message content
\* is missing or is not valid structured output (prose, a fenced non-JSON
\* block, a malformed array), extract returns an empty sequence and no error.
C11_MalformedContentIsEmpty ==
    (/\ ret.called
     /\ arg.fn = "extract_hackathons"
     /\ arg.reply.sent
     /\ arg.reply.json
     /\ \/ ~arg.reply.content.some
        \/ NotAnArray(arg.reply.content.v))
        => (ret.ok /\ ret.recs = << >>)

\* C11's case: extract has returned for a code-fenced block of prose.
C11_Witness ==
    /\ ret.called
    /\ arg.fn = "extract_hackathons"
    /\ arg.reply.sent
    /\ arg.reply.json
    /\ arg.reply.content = Some(<< Fence, "json", " ", "x", " ", Fence >>)
    /\ ret.ok

\* C12: every network-layer failure of the analysis call (credential
\* rejection, timeout, connection failure) yields an error, not an empty
\* sequence.
C12_NetworkFailureIsErr ==
    (/\ ret.called
     /\ arg.fn = "extract_hackathons"
     /\ (~arg.reply.sent \/ arg.reply.status = 401))
        => ~ret.ok

RECURSIVE SumLen(_, _)
\* The total length of the first k sequences of vs.
SumLen(vs, k) == IF k = 0 THEN 0 ELSE SumLen(vs, k - 1) + Len(vs[k])

\* C13: the final output is the concatenation, in completion order, of the
\* items' record sequences: each item's records are contiguous and in the
\* order returned, and every record comes from an Extractor call on a job.
C13_OutputIsConcatenation ==
    pc \in {"summary", "done"} =>
        /\ Len(outputs) = Len(successes)
        /\ Len(hackathons) = SumLen(outputs, Len(outputs))
        /\ \A k \in 1..Len(outputs) : \A i \in 1..Len(outputs[k]) :
              hackathons[SumLen(outputs, k - 1) + i] = outputs[k][i]
        /\ \A i \in 1..Len(hackathons) :
              \E j \in 1..Len(successes) :
                 /\ hackathons[i].url = successes[j].url
                 /\ \E r \in ExtractResults(successes[j].url) :
                       \E n \in 1..Len(r.recs) : r.ok /\ r.recs[n] = hackathons[i]
        /\ \A i, j \in 1..Len(hackathons) :
              (i < j /\ hackathons[i].url = hackathons[j].url)
                 => /\ hackathons[i].k < hackathons[j].k
                    /\ \A m \in i..j : hackathons[m].url = hackathons[i].url

\* C13's case: three jobs finished out of input order, one with two records,
\* one with none.
C13_Witness ==
    /\ pc = "summary"
    /\ Len(outputs) = 3
    /\ Len(outputs[1]) = 2
    /\ outputs[2] = << >>
    /\ Len(outputs[3]) = 1
    /\ hackathons[1].url # successes[1].url

\* C14: the success-only artifact and the extract stage's input hold the
\* same targets; for hosts {a, b} with a probed as (200, body) and b as a
\* transport error, the artifact holds only a, the extract stage gets one job
\* for a, and the final output is what the Extractor returned for a.
C14_ArtifactMatchesInput ==
    /\ pc \in {"extract", "summary", "done"} =>
          /\ Len(successes_json) = Len(successes)
          /\ \A k \in 1..Len(successes) : successes_json[k].url = successes[k].url
    /\ (/\ pc \in {"summary", "done"}
        /\ total = 2
        /\ ProbeSet = { probe(1, [ok |-> TRUE, status |-> 200],
                                 [ok |-> TRUE, body |-> "html"]),
                        probe(2, [ok |-> FALSE, err |-> "transport"],
                                 [ok |-> FALSE, err |-> "read"]) })
          => /\ successes_json = << [url |-> 1, content |-> "html"] >>
             /\ successes = << [url |-> 1, content |-> "html"] >>
             /\ Len(outputs) = 1
             /\ hackathons = outputs[1]

\* C14's case: the scenario has run to the summary with one record for a.
C14_Witness ==
    /\ pc = "summary"
    /\ total = 2
    /\ \E k \in 1..2 : probes[k].subdomain = 1 /\ probes[k].status = Some(200)
                       /\ probes[k].content.some
    /\ \E k \in 1..2 : probes[k].subdomain = 2 /\ ~probes[k].status.some
    /\ successes_json = << [url |-> 1, content |-> "html"] >>
    /\ hackathons = << Hackathon(1, 1) >>

\* C15: the request embeds exactly the first HTML_TRUNCATE_CHARS characters
\* of a longer page and the whole of a page within the limit, counted in
\* characters, not bytes.
C15_Truncation ==
    (ret.called /\ arg.fn = "extract_hackathons") =>
        LET len == Len(arg.html)
            sent == ret.request.html
        IN /\ len > HTML_TRUNCATE_CHARS =>
                 /\ Len(sent) = HTML_TRUNCATE_CHARS
                 /\ \A i \in 1..HTML_TRUNCATE_CHARS : sent[i] = arg.html[i]
           /\ len <= HTML_TRUNCATE_CHARS => sent = arg.html

\* C15's case: a page longer than the limit whose first characters are wider
\* than one byte has been truncated.
C15_Witness ==
    /\ ret.called
    /\ arg.fn = "extract_hackathons"
    /\ Len(arg.html) > HTML_TRUNCATE_CHARS
    /\ arg.html[1].bytes = 2
    /\ Len(ret.request.html) = HTML_TRUNCATE_CHARS

\* The git log lists its commits newest first, each with a readable date.
NewestFirst(diff) ==
    /\ \A i \in 1..Len(diff) : diff[i].kind = "date" => diff[i].ts.some
    /\ \A i, j \in 1..Len(diff) :
          (i < j /\ diff[i].kind = "date" /\ diff[j].kind = "date")
             => diff[i].ts.v > diff[j].ts.v

\* The timestamps of the commits of diff that touch subdomain k: a changed
\* line for k follows the commit's date line with no date line in between.
TouchedAt(diff, k) ==
    { diff[i].ts.v : i \in { i \in 1..Len(diff) :
         /\ diff[i].kind = "date"
         /\ \E j \in (i + 1)..Len(diff) :
               /\ diff[j].kind \in {"add", "del"}
               /\ diff[j].key = Some(k)
               /\ \A m \in (i + 1)..j : diff[m].kind # "date" } }

\* C16: for a git log listed newest first, every subdomain of the map has
\* first_added at its oldest commit and last_modified at its newest.
C16_FirstOldestLastNewest ==
    (/\ ret.called
     /\ arg.fn = "parse_git_diff"
     /\ NewestFirst(arg.diff_content)) =>
        \A k \in DOMAIN ret.history_map :
            LET at == TouchedAt(arg.diff_content, k)
            IN /\ at # {}
               /\ ret.history_map[k].first_added
                     = Some(CHOOSE t \in at : \A u \in at : t <= u)
               /\ ret.history_map[k].last_modified
                     = Some(CHOOSE t \in at : \A u \in at : t >= u)

\* C17: dispatch is continuous: whenever fewer than CONCURRENCY items are in
\* flight and an item is pending, the next item can be dispatched at once,
\* whatever else is still in flight.
C17_ContinuousDispatch ==
    /\ (pc = "probe" /\ Cardinality(pInFlight) < CONCURRENCY /\ pNext < total)
          => ENABLED ProbeDispatch
    /\ (pc = "extract" /\ Cardinality(eInFlight) < CONCURRENCY
                       /\ eNext < Len(successes))
          => ENABLED ExtractDispatch

\* C17's case: an item beyond the first CONCURRENCY is in flight together
\* with an item of the first CONCURRENCY.
C17_Witness ==
    /\ pc = "probe"
    /\ \E i \in pInFlight : i > CONCURRENCY
    /\ \E i \in pInFlight : i <= CONCURRENCY

\* C18: a limiter starts with exactly one available permit, and a tick adds
\* exactly one permit when the available count is below the maximum and none
\* when it is at the maximum, also when acquires and releases fall between
\* the tick's test and its add.
C18_TickAddsBelowMax ==
    /\ (rpm > 0 => permits = 1)
    /\ [][/\ (refill = "add" /\ refill' = "tick")
                => (permits < rpm /\ permits' = permits + 1)
          /\ (refill = "tick" /\ refill' = "tick" /\ permits >= rpm)
                => permits' <= permits]_vars

\* C19: for every requests_per_minute >= 1 the refill period in whole
\* milliseconds is positive and gives a number of ticks per 60000 ms within
\* one of requests_per_minute.
C19_PeriodMatchesBudget ==
    (ret.called /\ arg.fn = "period") =>
        /\ ret.period > 0
        /\ LET ticks == 60000 \div ret.period
           IN /\ ticks >= arg.requests_per_minute - 1
              /\ ticks <= arg.requests_per_minute + 1

StageCounts(obs, stage) ==
    LET lines == SelectSeq(obs, LAMBDA o : o.stage = stage)
    IN [k \in 1..Len(lines) |-> lines[k].n]

\* No two entries of ns are equal (as many values as entries) and together
\* they are the values 1..Len(ns).
DistinctAndGapless(ns) ==
    LET vals == { ns[a] : a \in DOMAIN ns }
    IN /\ Cardinality(vals) = Len(ns)
       /\ vals = 1..Len(ns)

\* C21: within one stage the counts carried by the progress observations are
\* pairwise distinct and without gaps, and once a stage of N items has
\* finished they are exactly the values 1..N, in every interleaving of
\* completions.
C21_CountsDistinctGapless ==
    LET probed == StageCounts(progress, "probe")
        extracted == StageCounts(progress, "extract")
    IN /\ DistinctAndGapless(probed)
       /\ DistinctAndGapless(extracted)
       /\ (pc \notin {"none", "probe"} => Len(probed) = total)
       /\ (pc \in {"summary", "done"} => Len(extracted) = Len(successes))

\* Both stages have finished with two or more items each, and the probes
\* completed in an order other than the order of dispatch.
C21_Witness ==
    /\ pc = "summary"
    /\ Len(StageCounts(progress, "probe")) >= 2
    /\ Len(StageCounts(progress, "extract")) >= 2
    /\ \E a, b \in DOMAIN probes : a < b /\ probes[a].subdomain > probes[b].subdomain

\* The host names of a mapping that are not empty.
NonEmptyNames(ks) ==
    { as_str(ks[a]).v : a \in { b \in DOMAIN ks :
                                  as_str(ks[b]).some /\ as_str(ks[b]).v # "" } }

\* C22: there is one target per non-empty host name and none for an empty
\* name; a target is dispatched once, its probe is called once and it is
\* never dispatched again, so that probe calls and outcomes both number the
\* non-empty host names when the stage has finished.
C22_ProbedExactlyOnce ==
    /\ [](arg.fn = "main" =>
            /\ { Subdomains(arg.keys)[t] : t \in 1..total }
                   = { Url(h) : h \in NonEmptyNames(arg.keys) }
            /\ total = Cardinality(NonEmptyNames(arg.keys))
            /\ \A t \in 1..total :
                  Cardinality({ k \in 1..Len(probes) : probes[k].subdomain = t })
                     = (IF t \in ProbeCompleted THEN 1 ELSE 0)
            /\ (pc # "probe" =>
                  /\ pNext = Cardinality(NonEmptyNames(arg.keys))
                  /\ Len(probes) = Cardinality(NonEmptyNames(arg.keys))))
    /\ [][\A t \in pInFlight' \ pInFlight :
             t = pNext + 1 /\ pNext' = t /\ t \notin ProbeCompleted]_vars

\* The stage has finished for a mapping with an empty name and two host
\* names, one of whose probes failed.
C22_Witness ==
    /\ arg.fn = "main"
    /\ pc = "debug"
    /\ \E a \in DOMAIN arg.keys : arg.keys[a] = [str |-> Some("")]
    /\ total = 2
    /\ Len(probes) = 2
    /\ \E p \in ProbeSet : ~p.status.some

\* What extract_hackathons returns for the content between the markers of
\* the wrapped message content it was called with.
Unwrapped ==
    extract_hackathons(arg.url, arg.html,
                       [arg.reply EXCEPT !.content = Some(arg.core)])

\* C23 (as stated): a message content wrapped in a leading tagged or bare
\* fence marker and a trailing fence marker gives what the content between
\* the markers gives, whatever that content is.
C23_WrappedAsUnwrapped ==
    (ret.called /\ arg.fn = "extract_hackathons") => ret = Unwrapped

\* C23 (amended): a message content wrapped in a leading tagged or bare fence
\* marker and a trailing fence marker gives what the content between the
\* markers gives, and what parsing that content as it stands gives, when that
\* content holds no fence marker of its own; a wrapped empty array gives no
\* records and no error.
C23_WrappedAsUnwrappedNoInnerFence ==
    (ret.called /\ arg.fn = "extract_hackathons" /\ Count(arg.core, Fence) = 0) =>
        /\ ret = Unwrapped
        /\ ret.ok
        /\ ret.recs = UnwrapOrDefault(FromStr(arg.core, arg.url))
        /\ (SelectSeq(arg.core, LAMBDA x : x # " ") = << "[", "]" >> =>
               ret.recs = << >>)

\* A record array between a tagged marker followed by white space and a
\* trailing marker preceded by white space has been parsed into its record.
C23_Witness ==
    /\ ret.called
    /\ arg.fn = "extract_hackathons"
    /\ arg.lead = << Fence, "json", " " >>
    /\ arg.core = << "[", "R", "]" >>
    /\ arg.trail = << " ", Fence >>
    /\ ret.ok
    /\ Len(ret.recs) = 1

====
